---- MODULE Spec2Model ----
(***************************************************************************)
(* Model of the iot_statistics regrouping engine                           *)
(* (view/stat_view.py, class InputProbeStatisticsView) over the statistic  *)
(* records of model/stat_input_probe.py (class InputProbeStatistics).      *)
(*                                                                         *)
(* A view instance wraps one list of records (_data) and four lazily       *)
(* filled fields.  Every property access of the view is one action; the    *)
(* loops of the property bodies are the recursive operators below,         *)
(* translated statement by statement.  A Python exception ends the access: *)
(* the action records its type in returned.exc and keeps whatever the      *)
(* body had already stored in the instance.                                *)
(*                                                                         *)
(* The other components the view is fed by are modelled beside it: the     *)
(* row decoder (load_row of InputProbeStatistics), the statement builders  *)
(* (trend_overall, trend_entity, trend_sub_entity, entity_list, with the   *)
(* statement text as the string the code composes), the generator methods  *)
(* that build and run a statement (model/stat_generator.py), and the       *)
(* grp_min expression as SQLite evaluates it.                              *)
(*                                                                         *)
(* Spec      views over every result list of up to MaxLen records of       *)
(*           overall_trend at each grouping level, all properties.         *)
(* SpecWide  views over sub-entity results with up to MaxSubs channels per *)
(*           device (more than the palette has colours), subs_by_entity.   *)
(* SpecTyped views over records whose aggregates are ints, floats or str.  *)
(* SpecLoad  one record object, constructed and loaded from result rows.   *)
(* SpecQuery one request: a statement builder called once.                 *)
(* SpecBucket the minute bucket of one probe time for one bucket size.     *)
(* SpecGen   one process: days pass, messages are recorded, and the        *)
(*           generator methods are called, each running one statement.     *)
(* SpecShared views over sub-entity results of two devices that publish    *)
(*           on the same channels.                                         *)
(* SpecMany  views over entity results of up to MaxEntities devices (more  *)
(*           than the palette has colours).                                *)
(***************************************************************************)
EXTENDS Integers, Sequences, FiniteSets, TLC

\* ------------------------------------------------------------------ bounds
\* Longest record list a view of the general specification is built over.
MaxLen == 3
\* Most sub-entities (channels) of one entity in the wide specification.
MaxSubs == 13
\* Longest record list a view of the typed specification is built over.
MaxTyped == 2
\* Largest by_min (minutes per bucket) a statement is built for.
MaxByMin == 59
\* Latest probe time, in seconds after midnight, a bucket is derived for.
MaxProbeTime == 7199
\* Most days that pass after the module was loaded.
MaxDays == 2
\* Most messages the recorder stores after the module was loaded.
MaxRecorded == 2
\* Most channels each device of a shared-channel input publishes on.
MaxChannels == 2
\* Most hour buckets of one group in a shared-channel or many-device input.
MaxHours == 2
\* Most devices in a many-device input: one more than the palette has colours.
MaxEntities == 13

VARIABLES
    _data,              \* self._data: the record list the view wraps
    _entities,          \* self._entities          (None or a list)
    _trends_by_entity,  \* self._trends_by_entity  (None or a dict)
    _subs_by_entity,    \* self._subs_by_entity    (None or a dict)
    _values_per_sub,    \* self._values_per_sub    (None or a dict)
    returned,           \* observation of the last property access
    first,              \* observation of each grouped view's first access
    stat,               \* one InputProbeStatistics object (self of load_row)
    loaded,             \* observation of the last load_row call
    query,              \* observation of the last statement built or run
    grp,                \* one probe time and the minute bucket SQLite gives it
    env                 \* the process and its surroundings: clock, database

viewVars == <<_data, _entities, _trends_by_entity, _subs_by_entity, _values_per_sub,
              returned, first>>
vars == <<_data, _entities, _trends_by_entity, _subs_by_entity, _values_per_sub,
          returned, first, stat, loaded, query, grp, env>>

\* ------------------------------------------------------- Python values
\* None where a string is expected (device_id of an overall record).
None == "<None>"
\* None where an integer is expected (channel_no unless loaded from a t03 row).
NoneInt == 0 - 1

\* An attribute that is None or holds a value (the lazily filled fields).
IsNone == [isNone |-> TRUE, v |-> <<>>]
Some(v) == [isNone |-> FALSE, v |-> v]

\* Aggregate values: a Python int, a Python float (n counts millionths), or
\* any other object (here: a str).
PyInt(n) == [t |-> "int", n |-> n, s |-> ""]
PyFloat(micro) == [t |-> "float", n |-> micro, s |-> ""]
PyStr(s) == [t |-> "str", n |-> 0, s |-> s]

Digits == <<"0", "1", "2", "3", "4", "5", "6", "7", "8", "9">>

RECURSIVE NatStr(_)
NatStr(n) ==
    IF n < 10 THEN Digits[n + 1]
    ELSE NatStr(n \div 10) \o Digits[(n % 10) + 1]

\* f"{value}" of an int
IntStr(n) == IF n < 0 THEN "-" \o NatStr(0 - n) ELSE NatStr(n)

\* the digits of n, zero-padded on the left to width w
RECURSIVE ZeroPad(_, _)
ZeroPad(n, w) ==
    IF w <= 1 THEN NatStr(n)
    ELSE IF n < 10 THEN "0" \o ZeroPad(n, w - 1)
    ELSE ZeroPad(n \div 10, w - 1) \o Digits[(n % 10) + 1]

\* f"{n:02}" / f"{n:02d}" of a non-negative int
Pad2(n) == ZeroPad(n, 2)

\* f"{value:.5f}" of a float given in millionths: rounded to 5 fractional
\* digits (the inputs carry no tie in the sixth digit).
Format5f(micro) ==
    LET mag == IF micro < 0 THEN 0 - micro ELSE micro
        r == (mag + 5) \div 10
        txt == NatStr(r \div 100000) \o "." \o ZeroPad(r % 100000, 5)
    IN  IF micro < 0 /\ r > 0 THEN "-" \o txt ELSE txt

\* ','.join(list) and friends
RECURSIVE Join(_, _)
Join(list, sep) ==
    IF list = <<>> THEN ""
    ELSE IF Len(list) = 1 THEN list[1]
    ELSE list[1] \o sep \o Join(Tail(list), sep)

\* x in list
In(x, list) == \E i \in 1..Len(list) : list[i] = x

\* int(input_probe.probe_hour): probe_hour is the text strftime('%H') gave
HourInt(text) == CHOOSE h \in 0..23 : Pad2(h) = text

\* ---------------------------------------------------------------- palette
_line_colors ==
    << "#ff0000", "#00ff00", "#0000ff",
       "#ffff00", "#ff00ff", "#00ffff",
       "#ff007f", "#7f00ff", "#00ff7f",
       "#ff7f00", "#7fff00", "#007fff" >>

_color_names == [Minimum |-> "#99ff99", Maximum |-> "#ff9999", Average |-> "#99ccff"]

\* ---------------------------------------------------------------- records
\* One InputProbeStatistics object, as far as the view reads it.
\* probe_hour is text (strftime('%H')), probe_min an integer, device_id a
\* string or None, channel_no an integer or None.
StatRecord(probe_hour, probe_min, device_id, channel_no, minimum, maximum, average) ==
    [probe_hour |-> probe_hour, probe_min |-> probe_min, device_id |-> device_id,
     channel_no |-> channel_no, minimum |-> minimum, maximum |-> maximum,
     average |-> average]

\* property entity_id
entity_id(rec) == rec.device_id

\* property sub_entity_printable: f"Channel: {self.channel_no:02d}";
\* formatting None with 02d raises TypeError.
sub_entity_printable(rec) ==
    IF rec.channel_no = NoneInt THEN [exc |-> "TypeError", s |-> ""]
    ELSE [exc |-> "", s |-> "Channel: " \o Pad2(rec.channel_no)]

\* ------------------------------------------------------------- _str_value
_str_value(value) ==
    IF value.t = "int" THEN IntStr(value.n)
    ELSE IF value.t = "float" THEN Format5f(value.n)
    ELSE value.s

\* [self._str_value(getattr(e, attr)) for e in self._data]
RECURSIVE StrValues(_, _)
StrValues(data, attr) ==
    IF data = <<>> THEN <<>>
    ELSE <<_str_value(Head(data)[attr])>> \o StrValues(Tail(data), attr)

\* ------------------------------------------------------------------ labels
\* the label of one record: f"{int(probe_hour):02}:{int(probe_min):02}"
LabelOf(input_probe) ==
    Pad2(HourInt(input_probe.probe_hour)) \o ":" \o Pad2(input_probe.probe_min)

\* the test that lets a label into lb_list: lbl not in lb_list
LabelIsNew_NotLast(lbl, lb_list) == lb_list = <<>> \/ lb_list[Len(lb_list)] # lbl
LabelIsNew(lbl, lb_list) == ~In(lbl, lb_list)

RECURSIVE lb_list_loop(_, _)
lb_list_loop(lb_list, rest) ==
    IF rest = <<>> THEN lb_list
    ELSE LET lbl == LabelOf(Head(rest))
         IN  lb_list_loop(IF LabelIsNew(lbl, lb_list) THEN Append(lb_list, lbl)
                          ELSE lb_list,
                          Tail(rest))

labels(data) ==
    LET lb_list == lb_list_loop(<<>>, data)
    IN  [i \in 1..Len(lb_list) |->
            [separator |-> IF i = 1 THEN "" ELSE ",", label |-> lb_list[i]]]

\* ------------------------------------------------------------ _entity_list
RECURSIVE _entity_list_loop(_, _)
_entity_list_loop(entities, rest) ==
    IF rest = <<>> THEN entities
    ELSE _entity_list_loop(IF In(entity_id(Head(rest)), entities) THEN entities
                           ELSE Append(entities, entity_id(Head(rest))),
                           Tail(rest))

_entity_list(data) == _entity_list_loop(<<>>, data)

\* --------------------------------------------- minima / maxima / averages
minima(data) == Join(StrValues(data, "minimum"), ",")
maxima_OfMinimum(data) == Join(StrValues(data, "minimum"), ",")
maxima(data) == Join(StrValues(data, "maximum"), ",")
averages(data) == Join(StrValues(data, "average"), ",")

\* ------------------------------------------------------------ Python dict
\* A dict is the sequence of its items in insertion order; assigning to a
\* key already present replaces the value and keeps the position.
DictHas(d, k) == \E i \in 1..Len(d) : d[i].key = k
DictSet(d, k, v) ==
    IF DictHas(d, k)
    THEN [i \in 1..Len(d) |-> IF d[i].key = k THEN [key |-> k, value |-> v] ELSE d[i]]
    ELSE Append(d, [key |-> k, value |-> v])
DictKeys(d) == [i \in 1..Len(d) |-> d[i].key]

\* the chart entry the trend views store for one group
TrendChart(chart_no, min_list, avg_list, max_list) ==
    [chartId |-> chart_no,
     dataSets |-> << [label |-> "Minimum", data |-> Join(min_list, ","),
                      borderColor |-> _color_names.Minimum],
                     [label |-> "Average", data |-> Join(avg_list, ","),
                      borderColor |-> _color_names.Average],
                     [label |-> "Maximum", data |-> Join(max_list, ","),
                      borderColor |-> _color_names.Maximum] >>]

\* len(key) > 0: the test for "a group is open"
GroupIsOpen_Always(key) == TRUE
GroupIsOpen_NotNone(key) == key # None
GroupIsOpen(key) == Len(key) > 0

\* chart_no += 1
NextChartNo_Stuck(chart_no) == chart_no
NextChartNo(chart_no) == chart_no + 1

\* -------------------------------------------------------- trends_by_entity
\* the locals of the loop, the dict being filled, and the exception raised
trends_by_entity_start ==
    [dict |-> <<>>, entity_id |-> "", e_min_list |-> <<>>, e_avg_list |-> <<>>,
     e_max_list |-> <<>>, chart_no |-> 1, exc |-> ""]

\* self._trends_by_entity[entity_id] = {...}
trends_by_entity_flush(st) ==
    [st EXCEPT !.dict = DictSet(st.dict, st.entity_id,
                                TrendChart(st.chart_no, st.e_min_list,
                                           st.e_avg_list, st.e_max_list))]

\* e_min_list = [self._str_value(data_elem.minimum)] (and avg, max): the
\* list of a group that opens holds the value of the record that opened it
e_list_start_Empty(value) == <<>>
e_list_start(value) == <<_str_value(value)>>

\* one pass of the for loop's body
trends_by_entity_step(st, data_elem) ==
    IF entity_id(data_elem) # st.entity_id
    THEN IF st.entity_id = None
         THEN [st EXCEPT !.exc = "TypeError"]          \* len(None)
         ELSE LET s1 == IF GroupIsOpen(st.entity_id)
                        THEN [trends_by_entity_flush(st)
                                EXCEPT !.chart_no = NextChartNo(st.chart_no)]
                        ELSE st
              IN  [s1 EXCEPT !.entity_id = entity_id(data_elem),
                             !.e_min_list = e_list_start(data_elem.minimum),
                             !.e_avg_list = e_list_start(data_elem.average),
                             !.e_max_list = e_list_start(data_elem.maximum)]
    ELSE [st EXCEPT !.e_min_list = Append(@, _str_value(data_elem.minimum)),
                    !.e_avg_list = Append(@, _str_value(data_elem.average)),
                    !.e_max_list = Append(@, _str_value(data_elem.maximum))]

RECURSIVE trends_by_entity_loop(_, _)
trends_by_entity_loop(st, rest) ==
    IF rest = <<>> \/ st.exc # "" THEN st
    ELSE trends_by_entity_loop(trends_by_entity_step(st, Head(rest)), Tail(rest))

\* the body after the memo test: the loop, then the flush of the open group
trends_by_entity_body(data) ==
    LET st == trends_by_entity_loop(trends_by_entity_start, data)
    IN  IF st.exc # "" THEN st
        ELSE IF st.entity_id = None THEN [st EXCEPT !.exc = "TypeError"]
        ELSE IF GroupIsOpen(st.entity_id) THEN trends_by_entity_flush(st)
        ELSE st

\* ---------------------------------------------------- trends_by_sub_entity
trends_by_sub_entity_start ==
    [dict |-> <<>>, sub_entity_prn_id |-> "", s_min_list |-> <<>>,
     s_avg_list |-> <<>>, s_max_list |-> <<>>, chart_no |-> 1, exc |-> ""]

\* self._values_per_sub[sub_entity_prn_id] = {...}
trends_by_sub_entity_flush(st) ==
    [st EXCEPT !.dict = DictSet(st.dict, st.sub_entity_prn_id,
                                TrendChart(st.chart_no, st.s_min_list,
                                           st.s_avg_list, st.s_max_list))]

trends_by_sub_entity_step(st, data_elem) ==
    LET prn == sub_entity_printable(data_elem)
    IN  IF prn.exc # "" THEN [st EXCEPT !.exc = prn.exc]
        ELSE IF prn.s # st.sub_entity_prn_id
        THEN LET s1 == IF GroupIsOpen(st.sub_entity_prn_id)
                       THEN [trends_by_sub_entity_flush(st)
                               EXCEPT !.chart_no = NextChartNo(st.chart_no)]
                       ELSE st
             IN  [s1 EXCEPT !.sub_entity_prn_id = prn.s,
                            !.s_min_list = <<_str_value(data_elem.minimum)>>,
                            !.s_avg_list = <<_str_value(data_elem.average)>>,
                            !.s_max_list = <<_str_value(data_elem.maximum)>>]
        ELSE [st EXCEPT !.s_min_list = Append(@, _str_value(data_elem.minimum)),
                        !.s_avg_list = Append(@, _str_value(data_elem.average)),
                        !.s_max_list = Append(@, _str_value(data_elem.maximum))]

RECURSIVE trends_by_sub_entity_loop(_, _)
trends_by_sub_entity_loop(st, rest) ==
    IF rest = <<>> \/ st.exc # "" THEN st
    ELSE trends_by_sub_entity_loop(trends_by_sub_entity_step(st, Head(rest)),
                                   Tail(rest))

trends_by_sub_entity_body(data) ==
    LET st == trends_by_sub_entity_loop(trends_by_sub_entity_start, data)
    IN  IF st.exc # "" THEN st
        ELSE IF GroupIsOpen(st.sub_entity_prn_id) THEN trends_by_sub_entity_flush(st)
        ELSE st

\* ---------------------------------------------------------- subs_by_entity
subs_by_entity_start ==
    [dict |-> <<>>, entity_id |-> "", sub_entity_prn_id |-> "", e_data_sets |-> <<>>,
     sub_avg_list |-> <<>>, chart_no |-> 1, sub_no |-> 0, exc |-> ""]

\* sub_no = (sub_no + 1) % len(self._line_colors)
NextSubNo_NoWrap(sub_no) == sub_no + 1
NextSubNo(sub_no) == (sub_no + 1) % Len(_line_colors)

\* f"{data_elem.average:.5f}": an int is formatted like the float of the same
\* value, any other object raises
FormatAverage5f(value) ==
    IF value.t = "int" THEN [exc |-> "", s |-> Format5f(value.n * 1000000)]
    ELSE IF value.t = "float" THEN [exc |-> "", s |-> Format5f(value.n)]
    ELSE [exc |-> "ValueError", s |-> ""]

\* e_data_sets.append({'label': ..., 'data': ..., 'borderColor':
\* self._line_colors[sub_no]}); the subscript raises IndexError out of range
AppendSubDataSet(st) ==
    IF st.sub_no + 1 > Len(_line_colors) THEN [st EXCEPT !.exc = "IndexError"]
    ELSE [st EXCEPT !.e_data_sets =
            Append(@, [label |-> st.sub_entity_prn_id,
                       data |-> Join(st.sub_avg_list, ","),
                       borderColor |-> _line_colors[st.sub_no + 1]])]

\* the statements that follow a successful step, unless it raised
NextSubNoAfter(st) ==
    IF st.exc # "" THEN st ELSE [st EXCEPT !.sub_no = NextSubNo(st.sub_no)]

\* if len(sub_entity_prn_id) > 0: append the data set; sub_no = next
CloseSubEntity(st) ==
    IF GroupIsOpen(st.sub_entity_prn_id) THEN NextSubNoAfter(AppendSubDataSet(st))
    ELSE st

\* sub_entity_prn_id = data_elem.sub_entity_printable; sub_avg_list = [first]
OpenSubEntity(st, prn, first_avg) ==
    IF st.exc # "" THEN st
    ELSE IF first_avg.exc # "" THEN [st EXCEPT !.sub_entity_prn_id = prn,
                                                !.exc = first_avg.exc]
    ELSE [st EXCEPT !.sub_entity_prn_id = prn, !.sub_avg_list = <<first_avg.s>>]

\* if len(sub_entity_prn_id) > 0: append the data set of the open sub-entity
AppendOpenSubEntity(st) ==
    IF GroupIsOpen(st.sub_entity_prn_id) THEN AppendSubDataSet(st) ELSE st

\* self._subs_by_entity[entity_id] = {'chartId': chart_no, 'dataSets': e_data_sets}
StoreEntityChart(st) ==
    IF st.exc # "" THEN st
    ELSE [st EXCEPT !.dict = DictSet(st.dict, st.entity_id,
                                    [chartId |-> st.chart_no,
                                     dataSets |-> st.e_data_sets])]

\* e_data_sets = []; sub_no = 0; chart_no += 1
StartNextChart(st) ==
    IF st.exc # "" THEN st
    ELSE [st EXCEPT !.e_data_sets = <<>>, !.sub_no = 0,
                    !.chart_no = NextChartNo(st.chart_no)]

\* if len(entity_id) > 0: close the chart of the entity that ended
CloseEntity(st) ==
    IF st.exc # "" THEN st
    ELSE IF st.entity_id = None THEN [st EXCEPT !.exc = "TypeError"]   \* len(None)
    ELSE IF GroupIsOpen(st.entity_id)
    THEN StartNextChart(StoreEntityChart(AppendOpenSubEntity(st)))
    ELSE st

\* entity_id = data_elem.entity_id
OpenEntity(st, data_elem) ==
    IF st.exc # "" THEN st ELSE [st EXCEPT !.entity_id = entity_id(data_elem)]

\* the sub-entity test inside the branch data_elem.entity_id != entity_id
subs_by_entity_new_entity_sub(st, data_elem, prn) ==
    IF prn # st.sub_entity_prn_id
    THEN OpenSubEntity(CloseSubEntity(st), prn,
                       [exc |-> "", s |-> _str_value(data_elem.average)])
    ELSE [st EXCEPT !.sub_avg_list = Append(@, _str_value(data_elem.average))]

\* the branch taken when data_elem.entity_id != entity_id
subs_by_entity_new_entity(st, data_elem, prn) ==
    OpenEntity(CloseEntity(subs_by_entity_new_entity_sub(st, data_elem, prn)),
               data_elem)

\* the branch taken when data_elem.entity_id == entity_id
subs_by_entity_same_entity(st, data_elem, prn) ==
    IF prn # st.sub_entity_prn_id
    THEN OpenSubEntity(CloseSubEntity(st), prn, FormatAverage5f(data_elem.average))
    ELSE [st EXCEPT !.sub_avg_list = Append(@, _str_value(data_elem.average))]

subs_by_entity_branch(st, data_elem, prn) ==
    IF prn.exc # "" THEN [st EXCEPT !.exc = prn.exc]
    ELSE IF entity_id(data_elem) # st.entity_id
    THEN subs_by_entity_new_entity(st, data_elem, prn.s)
    ELSE subs_by_entity_same_entity(st, data_elem, prn.s)

\* one pass of the for loop's body
subs_by_entity_step(st, data_elem) ==
    subs_by_entity_branch(st, data_elem, sub_entity_printable(data_elem))

RECURSIVE subs_by_entity_loop(_, _)
subs_by_entity_loop(st, rest) ==
    IF rest = <<>> \/ st.exc # "" THEN st
    ELSE subs_by_entity_loop(subs_by_entity_step(st, Head(rest)), Tail(rest))

\* after the loop: if len(entity_id) > 0, store the chart of the last entity
subs_by_entity_finish(st) ==
    IF st.exc # "" THEN st
    ELSE IF st.entity_id = None THEN [st EXCEPT !.exc = "TypeError"]   \* len(None)
    ELSE IF GroupIsOpen(st.entity_id) THEN StoreEntityChart(AppendOpenSubEntity(st))
    ELSE st

subs_by_entity_body(data) ==
    subs_by_entity_finish(subs_by_entity_loop(subs_by_entity_start, data))

\* ---------------------------------------------------- _aggregate_by_entity
_aggregate_by_entity_start ==
    [data_sets |-> <<>>, entities |-> <<>>, entity_id |-> "", e_data_list |-> <<>>,
     ds_no |-> 0, exc |-> ""]

\* ds_no += 1
NextDsNo(ds_no) == ds_no + 1

\* data_sets.append({... self._line_colors[ds_no]}); self._entities.append(entity_id)
_aggregate_by_entity_flush(st) ==
    IF st.ds_no + 1 > Len(_line_colors) THEN [st EXCEPT !.exc = "IndexError"]
    ELSE [st EXCEPT !.data_sets =
                        Append(@, [label |-> st.entity_id,
                                   data |-> Join(st.e_data_list, ","),
                                   borderColor |-> _line_colors[st.ds_no + 1]]),
                    !.entities = Append(@, st.entity_id)]

_aggregate_by_entity_step(st, data_elem, aggregate) ==
    IF entity_id(data_elem) # st.entity_id
    THEN IF st.entity_id = None
         THEN [st EXCEPT !.exc = "TypeError"]          \* len(None)
         ELSE LET s1 == IF GroupIsOpen(st.entity_id)
                        THEN LET f == _aggregate_by_entity_flush(st)
                             IN  IF f.exc # "" THEN f
                                 ELSE [f EXCEPT !.ds_no = NextDsNo(st.ds_no)]
                        ELSE st
              IN  IF s1.exc # "" THEN s1
                  ELSE [s1 EXCEPT !.entity_id = entity_id(data_elem),
                                  !.e_data_list = <<_str_value(data_elem[aggregate])>>]
    ELSE [st EXCEPT !.e_data_list = Append(@, _str_value(data_elem[aggregate]))]

RECURSIVE _aggregate_by_entity_loop(_, _, _)
_aggregate_by_entity_loop(st, rest, aggregate) ==
    IF rest = <<>> \/ st.exc # "" THEN st
    ELSE _aggregate_by_entity_loop(_aggregate_by_entity_step(st, Head(rest), aggregate),
                                   Tail(rest), aggregate)

_aggregate_by_entity(data, aggregate) ==
    LET st == _aggregate_by_entity_loop(_aggregate_by_entity_start, data, aggregate)
    IN  IF st.exc # "" THEN st
        ELSE IF st.entity_id = None THEN [st EXCEPT !.exc = "TypeError"]
        ELSE IF GroupIsOpen(st.entity_id) THEN _aggregate_by_entity_flush(st)
        ELSE st

\* ------------------------------------------------------------ row decoder
\* Python's None as a cell of a result row or a field of a record object
PyNone == [t |-> "NoneType", n |-> 0, s |-> ""]

\* InputProbeStatistics.__init__: every field is None
InputProbeStatistics ==
    [probe_date |-> PyNone, probe_hour |-> PyNone, probe_min |-> PyNone,
     device_id |-> PyNone, channel_no |-> PyNone, count |-> PyNone,
     minimum |-> PyNone, maximum |-> PyNone, average |-> PyNone]

\* property sub_entity_id: str(self.channel_no), of None the text 'None'
sub_entity_id(self) ==
    PyStr(IF self.channel_no.t = "NoneType" THEN "None"
          ELSE IF self.channel_no.t = "int" THEN IntStr(self.channel_no.n)
          ELSE self.channel_no.s)

\* cursor_row[k] of the code is cursor_row[k + 1] here
_load_row_t01(self, cursor_row) ==
    [self EXCEPT !.probe_date = cursor_row[2], !.probe_hour = cursor_row[3],
                 !.probe_min = cursor_row[4], !.count = cursor_row[5],
                 !.minimum = cursor_row[6], !.maximum = cursor_row[7],
                 !.average = cursor_row[8]]

_load_row_t02(self, cursor_row) ==
    [self EXCEPT !.probe_date = cursor_row[2], !.probe_hour = cursor_row[3],
                 !.probe_min = cursor_row[4], !.device_id = cursor_row[5],
                 !.count = cursor_row[6], !.minimum = cursor_row[7],
                 !.maximum = cursor_row[8], !.average = cursor_row[9]]

_load_row_t03(self, cursor_row) ==
    [self EXCEPT !.probe_date = cursor_row[2], !.probe_hour = cursor_row[3],
                 !.probe_min = cursor_row[4], !.device_id = cursor_row[5],
                 !.channel_no = cursor_row[6], !.count = cursor_row[7],
                 !.minimum = cursor_row[8], !.maximum = cursor_row[9],
                 !.average = cursor_row[10]]

_load_row_t09(self, cursor_row) ==
    [self EXCEPT !.probe_date = cursor_row[2], !.probe_hour = PyInt(0),
                 !.probe_min = PyInt(0), !.device_id = cursor_row[3],
                 !.channel_no = PyInt(0), !.count = PyInt(0),
                 !.minimum = PyInt(0), !.maximum = PyInt(0),
                 !.average = PyInt(0)]

\* load_row: the exception raised ("" = returned normally) and the object.
\* The if/elif chain has no else: with any other tag the method falls off
\* its end, assigning nothing.
load_row(self, cursor_row) ==
    LET res_type == cursor_row[1]
    IN  IF res_type = PyStr("t01")
        THEN [exc |-> "", self |-> _load_row_t01(self, cursor_row)]
        ELSE IF res_type = PyStr("t02")
        THEN [exc |-> "", self |-> _load_row_t02(self, cursor_row)]
        ELSE IF res_type = PyStr("t03")
        THEN [exc |-> "", self |-> _load_row_t03(self, cursor_row)]
        ELSE IF res_type = PyStr("t09")
        THEN [exc |-> "", self |-> _load_row_t09(self, cursor_row)]
        ELSE [exc |-> "", self |-> self]

\* Result rows of the four statements (column 0 is the shape tag), and rows
\* with a tag of no statement.
RowDate == PyStr("2021-03-04")
RowDevices == {PyStr("dev-1"), PyStr("dev-2")}
RowChannels == {PyInt(1), PyInt(2)}
RowAggregates(hour) ==
    << PyInt(3), PyInt(IF hour = "10" THEN 1 ELSE 2), PyInt(9), PyFloat(4500000) >>

RowsT01 ==
    { <<PyStr("t01"), RowDate, PyStr(hour), PyInt(0)>> \o RowAggregates(hour) :
      hour \in {"10", "11"} }
RowsT02 ==
    { <<PyStr("t02"), RowDate, PyStr(hour), PyInt(0), dev>> \o RowAggregates(hour) :
      hour \in {"10", "11"}, dev \in RowDevices }
RowsT03 ==
    { <<PyStr("t03"), RowDate, PyStr(hour), PyInt(0), dev, ch>> \o RowAggregates(hour) :
      hour \in {"10", "11"}, dev \in RowDevices, ch \in RowChannels }
RowsT09 == { <<PyStr("t09"), RowDate, dev>> : dev \in RowDevices }
RowsOther ==
    { <<PyStr(tag), RowDate, PyStr("10"), PyInt(0)>> \o RowAggregates("10") :
      tag \in {"t04", "T01", ""} }

Rows == RowsT01 \cup RowsT02 \cup RowsT03 \cup RowsT09 \cup RowsOther

NotLoaded == [called |-> FALSE, fresh |-> FALSE, exc |-> "", cursor_row |-> <<>>]

\* ------------------------------------------------------ statement builders
\* A wp_repository.SQLStatement is its text and its parameter list;
\* append_text appends to the text, append_param to the list.

\* f"{eval_date.strftime('%Y-%m-%d')}"
DateText(eval_date) ==
    ZeroPad(eval_date.year, 4) \o "-" \o Pad2(eval_date.month) \o "-"
        \o Pad2(eval_date.day)

s_prtm_full == "strftime('%s',datetime(probe_time))"
s_prtm_hour ==
    "strftime('%s',datetime(strftime('%Y-%m-%d %H:00:00',datetime(probe_time))))"

\* the grp_min column: the constant 0, or the bucket expression with by_min
\* written into it twice
grp_min_text(by_min) ==
    IF by_min = 0 THEN "0 as grp_min, "
    ELSE IntStr(by_min) \o "*(((" \o s_prtm_full \o "-" \o s_prtm_hour \o ")/60)/"
             \o IntStr(by_min) \o ") as grp_min, "

\* the aggregate columns, with eval_target written into them three times
aggregates_text(eval_target) ==
    "MIN(" \o eval_target \o ") AS min_res, MAX(" \o eval_target \o ") AS max_res, "
        \o "AVG(ALL " \o eval_target \o ") AS avg_res "

from_where_text == "FROM iot_recorder_input_probe " \o "WHERE date(probe_time) = ? "

\* "" if entity_id is None else " AND device_id = ? "
device_filter_Inline(p_entity_id) ==
    IF p_entity_id.t = "NoneType" THEN ""
    ELSE " AND device_id = '" \o p_entity_id.s \o "' "
device_filter(p_entity_id) ==
    IF p_entity_id.t = "NoneType" THEN "" ELSE " AND device_id = ? "

\* "" if sub_entity_id is None else " AND channel_no = ? "
channel_filter(p_sub_entity_id) ==
    IF p_sub_entity_id.t = "NoneType" THEN "" ELSE " AND channel_no = ? "

\* query.stmt_params = [date]; append_param for every filter that is not None
stmt_params(eval_date, p_entity_id, p_sub_entity_id) ==
    <<PyStr(DateText(eval_date))>>
        \o (IF p_entity_id.t # "NoneType" THEN <<p_entity_id>> ELSE <<>>)
        \o (IF p_sub_entity_id.t # "NoneType" THEN <<p_sub_entity_id>> ELSE <<>>)

trend_overall_group_by == "GROUP BY res_type, eval_date, grp_hour, grp_min "
trend_overall_order_by == "ORDER BY res_type, eval_date, grp_hour, grp_min"

trend_overall(eval_date, by_min, eval_target) ==
    [stmt_text |->
        "SELECT 't01' AS res_type, date(probe_time) as eval_date, "
        \o "strftime('%H',datetime(probe_time)) as grp_hour, "
        \o grp_min_text(by_min)
        \o "COUNT(1) AS num_res, "
        \o aggregates_text(eval_target)
        \o from_where_text
        \o trend_overall_group_by
        \o trend_overall_order_by,
     stmt_params |-> stmt_params(eval_date, PyNone, PyNone)]

trend_entity_group_by == "GROUP BY res_type, device_id, eval_date, grp_hour, grp_min "
trend_entity_order_by == "ORDER BY res_type, device_id, eval_date, grp_hour, grp_min"

trend_entity(eval_date, p_entity_id, by_min, eval_target) ==
    [stmt_text |->
        "SELECT 't02' AS res_type, date(probe_time) as eval_date, "
        \o "strftime('%H',datetime(probe_time)) as grp_hour, "
        \o grp_min_text(by_min)
        \o "device_id, COUNT(1) AS num_res, "
        \o aggregates_text(eval_target)
        \o from_where_text
        \o device_filter(p_entity_id)
        \o trend_entity_group_by
        \o trend_entity_order_by,
     stmt_params |-> stmt_params(eval_date, p_entity_id, PyNone)]

trend_sub_entity_group_by ==
    "GROUP BY res_type, device_id, channel_no, eval_date, grp_hour, grp_min "
trend_sub_entity_order_by_DateFirst ==
    "ORDER BY res_type, eval_date, grp_hour, grp_min, device_id, channel_no"
trend_sub_entity_order_by ==
    "ORDER BY res_type, device_id, channel_no, eval_date, grp_hour, grp_min"

trend_sub_entity(eval_date, p_entity_id, p_sub_entity_id, by_min, eval_target) ==
    [stmt_text |->
        "SELECT 't03' AS res_type, date(probe_time) as eval_date, "
        \o "strftime('%H',datetime(probe_time)) as grp_hour, "
        \o grp_min_text(by_min)
        \o "device_id, channel_no, COUNT(1) AS num_res, "
        \o aggregates_text(eval_target)
        \o from_where_text
        \o device_filter(p_entity_id)
        \o channel_filter(p_sub_entity_id)
        \o trend_sub_entity_group_by
        \o trend_sub_entity_order_by,
     stmt_params |-> stmt_params(eval_date, p_entity_id, p_sub_entity_id)]

entity_list(eval_date) ==
    [stmt_text |->
        "SELECT DISTINCT 't09' as res_type, date(probe_time) AS probe_date, "
        \o "device_id FROM iot_recorder_input_probe WHERE date(probe_time) = ? ORDER BY device_id",
     stmt_params |-> stmt_params(eval_date, PyNone, PyNone)]

\* ------------------------------------------------------ statistics generator
\* the statement overall_trend builds: the builder it picks and the statement
overall_trend_stmt(eval_target, eval_date, by_min, by_entity, by_sub_entity) ==
    IF ~by_entity
    THEN [built |-> "trend_overall",
          stmt |-> trend_overall(eval_date, by_min, eval_target)]
    ELSE IF ~by_sub_entity
    THEN [built |-> "trend_entity",
          stmt |-> trend_entity(eval_date, PyNone, by_min, eval_target)]
    ELSE [built |-> "trend_sub_entity",
          stmt |-> trend_sub_entity(eval_date, PyNone, PyNone, by_min, eval_target)]

\* date.today() as the default of eval_date: Python evaluates a default once,
\* when the def statement runs, so it is the day the module was loaded
eval_date_default(e) == e.loaded_on

\* the eval_date of a call: the argument, or the default when none is given
eval_date_of(e, given, eval_date) == IF given THEN eval_date ELSE eval_date_default(e)

\* what stat_repo.query hands back: the rows the database holds for the
\* statement when it runs (db counts what the recorder has stored so far)
NoResult == [stmt_text |-> "", stmt_params |-> <<>>, db |-> 0 - 1]
Rowset(stmt, db) ==
    [stmt_text |-> stmt.stmt_text, stmt_params |-> stmt.stmt_params, db |-> db]

\* with SQLiteRepository(...) as stat_repo: __enter__ opens the repository
repo_enter(open) == open + 1

\* leaving the with block calls __exit__, which releases the repository,
\* whether the block ended normally or by an exception (raised # "")
repo_exit_OnSuccess(open, raised) == IF raised # "" THEN open ELSE open - 1
repo_exit(open, raised) == open - 1

\* with ... as stat_repo: result = stat_repo.query(sql_stmt) / return result.
\* fails says whether the query raises; an exception leaves the with block
\* through __exit__ and then the method.
with_query(open, stmt, db, fails) ==
    [open |-> repo_exit(repo_enter(open), IF fails THEN "QueryExecutionFailure" ELSE ""),
     opened |-> 1,
     released |-> repo_enter(open)
                    - repo_exit(repo_enter(open),
                                IF fails THEN "QueryExecutionFailure" ELSE ""),
     queries |-> 1,
     raised |-> IF fails THEN "QueryExecutionFailure" ELSE "",
     exc |-> IF fails THEN "QueryExecutionFailure" ELSE "",
     result |-> IF fails THEN NoResult ELSE Rowset(stmt, db)]

\* ------------------------------------------------------------ minute bucket
\* The value SQLite gives the grp_min column for a row whose probe_time is
\* probe_time seconds after midnight: strftime('%s') gives the seconds of
\* the time and of the time cut to its hour, '-' and '/' are integer
\* operations, '/' truncating.
SecondsOfHourStart(probe_time) == probe_time - (probe_time % 3600)

grp_min_Ceiling(by_min, probe_time) ==
    IF by_min = 0 THEN 0
    ELSE by_min * ((((probe_time - SecondsOfHourStart(probe_time)) \div 60)
                        + by_min - 1) \div by_min)
grp_min(by_min, probe_time) ==
    IF by_min = 0 THEN 0
    ELSE by_min * (((probe_time - SecondsOfHourStart(probe_time)) \div 60) \div by_min)

\* what the variables of the other components hold while none of them acts
NoStatement ==
    [op |-> "", eval_target |-> "", eval_date |-> [year |-> 0, month |-> 0, day |-> 0],
     by_min |-> 0, entity_id |-> PyNone, sub_entity_id |-> PyNone,
     by_entity |-> FALSE, by_sub_entity |-> FALSE,
     stmt_text |-> "", stmt_params |-> <<>>, built |-> "", executed |-> FALSE,
     exc |-> "", date_given |-> FALSE, opened |-> 0, released |-> 0, queries |-> 0,
     raised |-> "", result |-> NoResult]

\* the day the process imported stat_generator, and the process on that day
\* before anything was recorded or called
LoadDate == [year |-> 2021, month |-> 3, day |-> 4]
EnvInit == [today |-> LoadDate, loaded_on |-> LoadDate, db |-> 0, open |-> 0]

NoBucket == [by_min |-> 0, probe_time |-> 0, grp_min |-> 0, done |-> FALSE]

\* ------------------------------------------------------------------ inputs
\* The aggregate values of the record at position i of a list: an int
\* minimum, an int maximum and a float average, different at every position.
MinimumAt(i) == PyInt(i - 1)
MaximumAt(i) == PyInt(i + 9)
AverageAt(i) == PyFloat(1250001 * i)

\* the position at which the run of equal keys around position i starts
RunStart(keys, i) ==
    CHOOSE s \in 1..i : /\ \A j \in s..i : keys[j] = keys[i]
                        /\ (s = 1 \/ keys[s - 1] # keys[i])

\* the hour bucket of the record at position i: the buckets of one group
\* (one run of equal keys) are successive hours from 10 on
HourAt(keys, i) == Pad2(10 + (i - RunStart(keys, i)))

SeqsUpTo(S, n) == UNION {[1..m -> S] : m \in 0..n}

\* results of trend_overall (t01 rows): no device, no channel; the hour
\* buckets in any order
OverallInputs ==
    { [i \in 1..Len(k) |->
         StatRecord(k[i], 0, None, NoneInt,
                    MinimumAt(i), MaximumAt(i), AverageAt(i))] :
      k \in SeqsUpTo({"10", "11"}, MaxLen) }

\* results of trend_entity (t02 rows): a device, no channel
EntityInputs ==
    { [i \in 1..Len(k) |->
         StatRecord(HourAt(k, i), 0, k[i], NoneInt,
                    MinimumAt(i), MaximumAt(i), AverageAt(i))] :
      k \in SeqsUpTo({"", "A", "B"}, MaxLen) }

\* results of trend_sub_entity (t03 rows): a device and a channel
SubEntityInputs ==
    { [i \in 1..Len(k) |->
         StatRecord(HourAt(k, i), 0, k[i][1], k[i][2],
                    MinimumAt(i), MaximumAt(i), AverageAt(i))] :
      k \in SeqsUpTo({"A", "B"} \X {1, 2}, MaxLen) }

\* --------------------------------------------------------------- the view
GroupedViews == {"trends_by_entity", "trends_by_sub_entity", "subs_by_entity"}

NoAccess == [op |-> "", exc |-> "", val |-> <<>>, iterated |-> FALSE, again |-> FALSE]
NotYet == [seen |-> FALSE, exc |-> "", val |-> <<>>]

\* what an access hands to its caller: op names the property, exc the
\* exception raised ("" = returned normally), val the value returned,
\* iterated whether the access walked self._data, again whether the lazily
\* filled field of the property was already set when the access began
Outcome(op, exc, val, iterated, again) ==
    [op |-> op, exc |-> exc, val |-> IF exc = "" THEN val ELSE <<>>,
     iterated |-> iterated, again |-> again]

\* __init__
ViewInit(input_probe_stat) ==
    /\ _data = input_probe_stat
    /\ _entities = IsNone
    /\ _trends_by_entity = IsNone
    /\ _subs_by_entity = IsNone
    /\ _values_per_sub = IsNone
    /\ returned = NoAccess
    /\ first = [g \in GroupedViews |-> NotYet]

\* a view over the result of overall_trend at one of its grouping levels
\* nothing but the view acts
OnlyView ==
    /\ stat = InputProbeStatistics
    /\ loaded = NotLoaded
    /\ query = NoStatement
    /\ grp = NoBucket
    /\ env = EnvInit

Init ==
    /\ OnlyView
    /\ \/ \E input_probe_stat \in OverallInputs : ViewInit(input_probe_stat)
       \/ \E input_probe_stat \in EntityInputs : ViewInit(input_probe_stat)
       \/ \E input_probe_stat \in SubEntityInputs : ViewInit(input_probe_stat)

Observe(g) ==
    first' = IF first[g].seen THEN first
             ELSE [first EXCEPT ![g] = [seen |-> TRUE, exc |-> returned'.exc,
                                        val |-> returned'.val]]

GetLabels ==
    /\ returned' = Outcome("labels", "", labels(_data), TRUE, FALSE)
    /\ UNCHANGED <<env, stat, loaded, query, grp, _data, _entities, _trends_by_entity, _subs_by_entity,
                   _values_per_sub, first>>

GetEntities ==
    /\ _entities' = IF _entities.isNone THEN Some(_entity_list(_data)) ELSE _entities
    /\ returned' = Outcome("entities", "", _entities'.v, _entities.isNone,
                           ~_entities.isNone)
    /\ UNCHANGED <<env, stat, loaded, query, grp, _data, _trends_by_entity, _subs_by_entity, _values_per_sub, first>>

GetMinima ==
    /\ returned' = Outcome("minima", "", minima(_data), TRUE, FALSE)
    /\ UNCHANGED <<env, stat, loaded, query, grp, _data, _entities, _trends_by_entity, _subs_by_entity,
                   _values_per_sub, first>>

GetMaxima ==
    /\ returned' = Outcome("maxima", "", maxima(_data), TRUE, FALSE)
    /\ UNCHANGED <<env, stat, loaded, query, grp, _data, _entities, _trends_by_entity, _subs_by_entity,
                   _values_per_sub, first>>

GetAverages ==
    /\ returned' = Outcome("averages", "", averages(_data), TRUE, FALSE)
    /\ UNCHANGED <<env, stat, loaded, query, grp, _data, _entities, _trends_by_entity, _subs_by_entity,
                   _values_per_sub, first>>

\* averages_by_entity / minima_by_entity / maxima_by_entity
GetAggregateByEntity(op, aggregate) ==
    LET st == _aggregate_by_entity(_data, aggregate)
    IN  /\ _entities' = Some(st.entities)
        /\ returned' = Outcome(op, st.exc, st.data_sets, TRUE, FALSE)
        /\ UNCHANGED <<env, stat, loaded, query, grp, _data, _trends_by_entity, _subs_by_entity, _values_per_sub,
                       first>>

GetAveragesByEntity == GetAggregateByEntity("averages_by_entity", "average")
GetMinimaByEntity == GetAggregateByEntity("minima_by_entity", "minimum")
GetMaximaByEntity == GetAggregateByEntity("maxima_by_entity", "maximum")

GetTrendsByEntity ==
    /\ IF ~_trends_by_entity.isNone
       THEN /\ returned' = Outcome("trends_by_entity", "", _trends_by_entity.v,
                                   FALSE, TRUE)
            /\ UNCHANGED _trends_by_entity
       ELSE LET st == trends_by_entity_body(_data)
            IN  /\ _trends_by_entity' = Some(st.dict)
                /\ returned' = Outcome("trends_by_entity", st.exc, st.dict, TRUE, FALSE)
    /\ Observe("trends_by_entity")
    /\ UNCHANGED <<env, stat, loaded, query, grp, _data, _entities, _subs_by_entity, _values_per_sub>>

GetTrendsBySubEntity ==
    /\ IF ~_values_per_sub.isNone
       THEN /\ returned' = Outcome("trends_by_sub_entity", "", _values_per_sub.v,
                                   FALSE, TRUE)
            /\ UNCHANGED _values_per_sub
       ELSE LET st == trends_by_sub_entity_body(_data)
            IN  /\ _values_per_sub' = Some(st.dict)
                /\ returned' = Outcome("trends_by_sub_entity", st.exc, st.dict,
                                       TRUE, FALSE)
    /\ Observe("trends_by_sub_entity")
    /\ UNCHANGED <<env, stat, loaded, query, grp, _data, _entities, _trends_by_entity, _subs_by_entity>>

GetSubsByEntity ==
    /\ IF ~_subs_by_entity.isNone
       THEN /\ returned' = Outcome("subs_by_entity", "", _subs_by_entity.v, FALSE, TRUE)
            /\ UNCHANGED _subs_by_entity
       ELSE LET st == subs_by_entity_body(_data)
            IN  /\ _subs_by_entity' = Some(st.dict)
                /\ returned' = Outcome("subs_by_entity", st.exc, st.dict, TRUE, FALSE)
    /\ Observe("subs_by_entity")
    /\ UNCHANGED <<env, stat, loaded, query, grp, _data, _entities, _trends_by_entity, _values_per_sub>>

Next ==
    \/ GetLabels
    \/ GetEntities
    \/ GetMinima
    \/ GetMaxima
    \/ GetAverages
    \/ GetAveragesByEntity
    \/ GetMinimaByEntity
    \/ GetMaximaByEntity
    \/ GetTrendsByEntity
    \/ GetTrendsBySubEntity
    \/ GetSubsByEntity

Spec == Init /\ [][Next]_vars

\* ------------------------------------------------ the wide specification
\* Views over results of trend_sub_entity with many channels: device A with
\* channels 1..nA followed by device B with channels 1..nB, one hour bucket
\* each, in the order of the query.
WideKeys(nA, nB) ==
    [i \in 1..(nA + nB) |-> IF i <= nA THEN <<"A", i>> ELSE <<"B", i - nA>>]

WideInput(nA, nB) ==
    [i \in 1..(nA + nB) |->
        StatRecord(HourAt(WideKeys(nA, nB), i), 0, WideKeys(nA, nB)[i][1],
                   WideKeys(nA, nB)[i][2],
                   MinimumAt(i), MaximumAt(i), AverageAt(i))]

InitWide == OnlyView /\ \E nA, nB \in 0..MaxSubs : ViewInit(WideInput(nA, nB))

NextWide == GetSubsByEntity

SpecWide == InitWide /\ [][NextWide]_vars

\* --------------------------------------- the shared-channel specification
\* Views over a result of trend_sub_entity for two devices that publish on
\* the same channels 1..nC, every channel of a device with nH hour buckets,
\* in the order of the query (device, channel, hour, minute).
SharedKeys(nC, nH) ==
    [i \in 1..(2 * nC * nH) |->
        << IF i <= nC * nH THEN "A" ELSE "B", (((i - 1) % (nC * nH)) \div nH) + 1 >>]

SharedInput(nC, nH) ==
    [i \in 1..(2 * nC * nH) |->
        StatRecord(HourAt(SharedKeys(nC, nH), i), 0, SharedKeys(nC, nH)[i][1],
                   SharedKeys(nC, nH)[i][2],
                   MinimumAt(i), MaximumAt(i), AverageAt(i))]

InitShared ==
    OnlyView /\ \E nC \in 1..MaxChannels, nH \in 1..MaxHours : ViewInit(SharedInput(nC, nH))

SpecShared == InitShared /\ [][Next]_vars

\* ----------------------------------------- the many-device specification
\* Views over a result of trend_entity for n devices, every device with nH
\* hour buckets, in the order of the query (device, hour, minute).
ManyKeys(n, nH) == [i \in 1..(n * nH) |-> "dev-" \o Pad2(((i - 1) \div nH) + 1)]

ManyInput(n, nH) ==
    [i \in 1..(n * nH) |->
        StatRecord(HourAt(ManyKeys(n, nH), i), 0, ManyKeys(n, nH)[i], NoneInt,
                   MinimumAt(i), MaximumAt(i), AverageAt(i))]

InitMany ==
    OnlyView /\ \E n \in 0..MaxEntities, nH \in 1..MaxHours : ViewInit(ManyInput(n, nH))

SpecMany == InitMany /\ [][Next]_vars

\* ----------------------------------------------- the typed specification
\* Views over sub-entity records whose aggregate values are of any type
\* _str_value tells apart: an int, a float, or another object (a str).
ValueTypes == {"int", "float", "str"}

\* a value of type t, different for every n
TypedValue(t, n) ==
    IF t = "int" THEN PyInt(n)
    ELSE IF t = "float" THEN PyFloat(1250001 * n)
    ELSE PyStr("v" \o NatStr(n))

\* records of devices and channels whose three aggregates are of one type
TypedInputs ==
    { [i \in 1..Len(k) |->
         StatRecord(HourAt([j \in 1..Len(k) |-> k[j][1]], i), 0, k[i][1][1], k[i][1][2],
                    TypedValue(k[i][2], i), TypedValue(k[i][2], i + 10),
                    TypedValue(k[i][2], i + 20))] :
      k \in SeqsUpTo(({"A", "B"} \X {1, 2}) \X ValueTypes, MaxTyped) }

InitTyped == OnlyView /\ \E input_probe_stat \in TypedInputs : ViewInit(input_probe_stat)

SpecTyped == InitTyped /\ [][Next]_vars

\* ------------------------------------------- the decoding specification
\* One InputProbeStatistics object: constructed, then loaded from result
\* rows any number of times (load_row is a public method of the object).
InitLoad ==
    /\ ViewInit(<<>>)
    /\ env = EnvInit
    /\ stat = InputProbeStatistics
    /\ loaded = NotLoaded
    /\ query = NoStatement
    /\ grp = NoBucket

\* stat = InputProbeStatistics()
Construct ==
    /\ stat' = InputProbeStatistics
    /\ loaded' = NotLoaded
    /\ UNCHANGED <<viewVars, env, query, grp>>

\* stat.load_row(cursor_row)
LoadRow ==
    \E cursor_row \in Rows :
        /\ stat' = load_row(stat, cursor_row).self
        /\ loaded' = [called |-> TRUE, fresh |-> ~loaded.called,
                      exc |-> load_row(stat, cursor_row).exc,
                      cursor_row |-> cursor_row]
        /\ UNCHANGED <<viewVars, env, query, grp>>

NextLoad == Construct \/ LoadRow

SpecLoad == InitLoad /\ [][NextLoad]_vars

\* ------------------------------------------- the statement specification
\* One request: its date, bucket size and target attribute are chosen at
\* the start, the builder and its remaining arguments by the action.
EvalDates ==
    { [year |-> 2021, month |-> 3, day |-> 4],
      [year |-> 2021, month |-> 11, day |-> 25] }
EvalTargets == {"value", "no_such_column"}
EntityFilters == {PyStr(""), PyStr("dev-1")}
SubEntityFilters == {PyInt(0), PyInt(77)}

InitQuery ==
    /\ ViewInit(<<>>)
    /\ env = EnvInit
    /\ stat = InputProbeStatistics
    /\ loaded = NotLoaded
    /\ grp = NoBucket
    /\ \E eval_date \in EvalDates, by_min \in 0..MaxByMin, eval_target \in EvalTargets :
          query = [NoStatement EXCEPT !.eval_date = eval_date, !.by_min = by_min,
                                      !.eval_target = eval_target]

\* the outcome of a builder: the statement it returned
Called(op, built, stmt, executed) ==
    [query EXCEPT !.op = op, !.built = built, !.stmt_text = stmt.stmt_text,
                  !.stmt_params = stmt.stmt_params, !.executed = executed]

BuildTrendOverall ==
    /\ query.op = ""
    /\ query' = Called("trend_overall", "trend_overall",
                       trend_overall(query.eval_date, query.by_min, query.eval_target),
                       FALSE)
    /\ UNCHANGED <<viewVars, env, stat, loaded, grp>>

BuildTrendEntity ==
    /\ query.op = ""
    /\ \E p_entity_id \in EntityFilters \cup {PyNone} :
          query' = [Called("trend_entity", "trend_entity",
                           trend_entity(query.eval_date, p_entity_id, query.by_min,
                                        query.eval_target),
                           FALSE)
                    EXCEPT !.entity_id = p_entity_id]
    /\ UNCHANGED <<viewVars, env, stat, loaded, grp>>

BuildTrendSubEntity ==
    /\ query.op = ""
    /\ \E p_entity_id \in EntityFilters \cup {PyNone},
          p_sub_entity_id \in SubEntityFilters \cup {PyNone} :
          query' = [Called("trend_sub_entity", "trend_sub_entity",
                           trend_sub_entity(query.eval_date, p_entity_id, p_sub_entity_id,
                                            query.by_min, query.eval_target),
                           FALSE)
                    EXCEPT !.entity_id = p_entity_id, !.sub_entity_id = p_sub_entity_id]
    /\ UNCHANGED <<viewVars, env, stat, loaded, grp>>

BuildEntityList ==
    /\ query.op = ""
    /\ query' = Called("entity_list", "entity_list", entity_list(query.eval_date), FALSE)
    /\ UNCHANGED <<viewVars, env, stat, loaded, grp>>

NextQuery ==
    \/ BuildTrendOverall
    \/ BuildTrendEntity
    \/ BuildTrendSubEntity
    \/ BuildEntityList

SpecQuery == InitQuery /\ [][NextQuery]_vars

\* ------------------------------------------- the generator specification
\* One process that imported stat_generator on LoadDate.  Days pass, the
\* recorder stores messages, and the three methods of the generator are
\* called again and again, with or without an evaluation date; each call
\* builds its statement and runs it in a repository of its own.  The query
\* of a call may raise.  query holds the outcome of the call just made.
GenByMins == {0, 5}

\* the clock passes midnight
NextDay ==
    /\ env.today.day < LoadDate.day + MaxDays
    /\ env' = [env EXCEPT !.today.day = @ + 1]
    /\ query' = NoStatement
    /\ UNCHANGED <<viewVars, stat, loaded, grp>>

\* the recorder stores another message
Record ==
    /\ env.db < MaxRecorded
    /\ env' = [env EXCEPT !.db = @ + 1]
    /\ query' = NoStatement
    /\ UNCHANGED <<viewVars, stat, loaded, grp>>

\* the outcome of a generator method: its arguments, the statement it built
\* and what running the statement in a repository gave
Generated(op, built, stmt, given, eval_date, run) ==
    [NoStatement EXCEPT !.op = op, !.built = built, !.stmt_text = stmt.stmt_text,
                        !.stmt_params = stmt.stmt_params, !.executed = TRUE,
                        !.date_given = given, !.eval_date = eval_date,
                        !.opened = run.opened, !.released = run.released,
                        !.queries = run.queries, !.raised = run.raised,
                        !.exc = run.exc, !.result = run.result]

\* IotStatisticsGenerator.entities
Entities ==
    /\ \E given \in BOOLEAN, date \in EvalDates, fails \in BOOLEAN :
          LET eval_date == eval_date_of(env, given, date)
              stmt == entity_list(eval_date)
              run == with_query(env.open, stmt, env.db, fails)
          IN  /\ query' = [Generated("entities", "entity_list", stmt, given, eval_date, run)
                           EXCEPT !.eval_target = "value"]
              /\ env' = [env EXCEPT !.open = run.open]
    /\ UNCHANGED <<viewVars, stat, loaded, grp>>

\* IotStatisticsGenerator.overall_trend
OverallTrend ==
    /\ \E given \in BOOLEAN, date \in EvalDates, fails \in BOOLEAN,
          eval_target \in EvalTargets, by_min \in GenByMins,
          by_entity \in BOOLEAN, by_sub_entity \in BOOLEAN :
          LET eval_date == eval_date_of(env, given, date)
              b == overall_trend_stmt(eval_target, eval_date, by_min,
                                      by_entity, by_sub_entity)
              run == with_query(env.open, b.stmt, env.db, fails)
          IN  /\ query' = [Generated("overall_trend", b.built, b.stmt, given, eval_date, run)
                           EXCEPT !.eval_target = eval_target, !.by_min = by_min,
                                  !.by_entity = by_entity,
                                  !.by_sub_entity = by_sub_entity]
              /\ env' = [env EXCEPT !.open = run.open]
    /\ UNCHANGED <<viewVars, stat, loaded, grp>>

\* IotStatisticsGenerator.sub_entity_values
SubEntityValues ==
    /\ \E given \in BOOLEAN, date \in EvalDates, fails \in BOOLEAN,
          eval_target \in EvalTargets, by_min \in GenByMins,
          p_entity_id \in EntityFilters :
          LET eval_date == eval_date_of(env, given, date)
              stmt == trend_sub_entity(eval_date, p_entity_id, PyNone, by_min,
                                       eval_target)
              run == with_query(env.open, stmt, env.db, fails)
          IN  /\ query' = [Generated("sub_entity_values", "trend_sub_entity", stmt,
                                     given, eval_date, run)
                           EXCEPT !.eval_target = eval_target, !.by_min = by_min,
                                  !.entity_id = p_entity_id]
              /\ env' = [env EXCEPT !.open = run.open]
    /\ UNCHANGED <<viewVars, stat, loaded, grp>>

InitGen ==
    /\ ViewInit(<<>>)
    /\ stat = InputProbeStatistics
    /\ loaded = NotLoaded
    /\ grp = NoBucket
    /\ query = NoStatement
    /\ env = EnvInit

NextGen ==
    \/ NextDay
    \/ Record
    \/ Entities
    \/ OverallTrend
    \/ SubEntityValues

SpecGen == InitGen /\ [][NextGen]_vars

\* --------------------------------------------- the bucket specification
\* One stored message, probed probe_time seconds after midnight, in a
\* statement built with by_min: SQLite evaluates its grp_min column.
InitBucket ==
    /\ ViewInit(<<>>)
    /\ env = EnvInit
    /\ stat = InputProbeStatistics
    /\ loaded = NotLoaded
    /\ query = NoStatement
    /\ \E by_min \in 0..MaxByMin, probe_time \in 0..MaxProbeTime :
          grp = [by_min |-> by_min, probe_time |-> probe_time, grp_min |-> 0,
                 done |-> FALSE]

EvaluateGrpMin ==
    /\ ~grp.done
    /\ grp' = [grp EXCEPT !.grp_min = grp_min(grp.by_min, grp.probe_time),
                          !.done = TRUE]
    /\ UNCHANGED <<viewVars, env, stat, loaded, query>>

NextBucket == EvaluateGrpMin

SpecBucket == InitBucket /\ [][NextBucket]_vars

\* ======================================================================
\* Properties
\* ======================================================================

\* the elements of seq at the positions in I, in order (n = Len(seq))
RECURSIVE SubSeqAt(_, _, _)
SubSeqAt(seq, I, n) ==
    IF n = 0 THEN <<>>
    ELSE SubSeqAt(seq, I, n - 1) \o (IF n \in I THEN <<seq[n]>> ELSE <<>>)

\* the distinct elements of seq in order of first appearance
DistinctInOrder(seq) ==
    SubSeqAt(seq, {i \in 1..Len(seq) : \A j \in 1..(i - 1) : seq[j] # seq[i]}, Len(seq))

EntityIds(data) == [i \in 1..Len(data) |-> data[i].device_id]

\* the records of data whose entity is e
RecordsOf(data, e) ==
    SubSeqAt(data, {i \in 1..Len(data) : data[i].device_id = e}, Len(data))

\* every record carries an entity id (none is None)
EntityIdsPresent(data) == \A i \in 1..Len(data) : data[i].device_id # None

\* every record carries a non-empty entity id
EntityIdsNonEmpty(data) ==
    \A i \in 1..Len(data) : data[i].device_id # None /\ data[i].device_id # ""

\* records with the same non-empty entity id are contiguous
EntitiesContiguous(data) ==
    \A i, j \in 1..Len(data) :
        (i < j /\ data[i].device_id = data[j].device_id /\ data[i].device_id # "")
            => \A k \in i..j : data[k].device_id = data[i].device_id

\* the formatted values of one attribute of the records, comma-joined
FormattedColumn(recs, attr) ==
    Join([i \in 1..Len(recs) |-> _str_value(recs[i][attr])], ",")

\* C1: trends_by_entity over records whose equal non-empty entity ids are
\* contiguous returns one entry per distinct (non-empty) entity id, in the
\* order the entities first appear, with chartId 1, 2, ..., n.
C1_TrendsByEntityChartIds ==
    (/\ returned.op = "trends_by_entity"
     /\ EntityIdsPresent(_data)
     /\ EntitiesContiguous(_data))
    => /\ returned.exc = ""
       /\ DictKeys(returned.val)
            = DistinctInOrder(SelectSeq(EntityIds(_data), LAMBDA e : e # ""))
       /\ \A k \in 1..Len(returned.val) : returned.val[k].value.chartId = k

\* a view over three records of two entities has returned two charts
C1_Witness ==
    /\ returned.op = "trends_by_entity"
    /\ EntityIdsNonEmpty(_data) /\ EntitiesContiguous(_data)
    /\ Len(_data) = 3
    /\ Len(returned.val) = 2
    /\ returned.val[2].value.chartId = 2

\* C2: under the same precondition the Minimum, Average and Maximum series
\* of an entity's entry are the formatted minima, averages and maxima of
\* exactly that entity's records, in input order; when every entity id is
\* non-empty, the groups' series joined in chartId order are the flat
\* minima, averages and maxima strings of the view.
C2_TrendsByEntitySeries ==
    (/\ returned.op = "trends_by_entity"
     /\ EntityIdsPresent(_data)
     /\ EntitiesContiguous(_data))
    => /\ returned.exc = ""
       /\ \A k \in 1..Len(returned.val) :
            LET recs == RecordsOf(_data, returned.val[k].key)
                sets == returned.val[k].value.dataSets
            IN  /\ [i \in 1..3 |-> sets[i].label] = <<"Minimum", "Average", "Maximum">>
                /\ sets[1].data = FormattedColumn(recs, "minimum")
                /\ sets[2].data = FormattedColumn(recs, "average")
                /\ sets[3].data = FormattedColumn(recs, "maximum")
       /\ EntityIdsNonEmpty(_data) =>
            /\ Join([k \in 1..Len(returned.val) |->
                        returned.val[k].value.dataSets[1].data], ",") = minima(_data)
            /\ Join([k \in 1..Len(returned.val) |->
                        returned.val[k].value.dataSets[2].data], ",") = averages(_data)
            /\ Join([k \in 1..Len(returned.val) |->
                        returned.val[k].value.dataSets[3].data], ",") = maxima(_data)

\* a view over A, A, B has returned the chart of A with two values a series
C2_Witness ==
    /\ returned.op = "trends_by_entity"
    /\ EntityIds(_data) = <<"A", "A", "B">>
    /\ Len(returned.val) = 2
    /\ returned.val[1].value.dataSets[1].data = "0,1"
    /\ returned.val[1].value.dataSets[2].data = "1.25000,2.50000"
    /\ returned.val[2].value.dataSets[3].data = "12"

\* the order of the entity ids the inputs use (ORDER BY device_id)
EntityOrder == <<"", "A", "B">>
EntityRank(e) == CHOOSE r \in 1..Len(EntityOrder) : EntityOrder[r] = e

\* record a sorts before or with record b under
\* ORDER BY device_id, channel_no, grp_hour, grp_min
SortsBefore(a, b) ==
    LET ka == <<EntityRank(a.device_id), a.channel_no, HourInt(a.probe_hour), a.probe_min>>
        kb == <<EntityRank(b.device_id), b.channel_no, HourInt(b.probe_hour), b.probe_min>>
    IN  \/ ka = kb
        \/ \E p \in 1..4 : ka[p] < kb[p] /\ \A q \in 1..(p - 1) : ka[q] = kb[q]

\* a result of trend_sub_entity as the query orders it: every record has a
\* non-empty entity id and a channel, and the list is sorted by
\* (entity, sub-entity, hour, minute)
OrderedBySubEntity(data) ==
    /\ \A i \in 1..Len(data) : /\ data[i].device_id # None
                               /\ data[i].device_id # ""
                               /\ data[i].channel_no # NoneInt
    /\ \A i \in 1..(Len(data) - 1) : SortsBefore(data[i], data[i + 1])

\* the printable sub-entity ids of the records
SubLabels(recs) == [i \in 1..Len(recs) |-> sub_entity_printable(recs[i]).s]

\* the records of data whose entity is e and whose printable sub-entity is lbl
RecordsOfSub(data, e, lbl) ==
    SubSeqAt(data, {i \in 1..Len(data) : /\ data[i].device_id = e
                                         /\ sub_entity_printable(data[i]).s = lbl},
             Len(data))

\* C3: subs_by_entity over an input ordered by (entity, sub-entity, hour,
\* minute) with non-empty entity ids gives every entity one chart whose data
\* sets are, in input order, one series per distinct sub-entity of that
\* entity's records, labelled with its printable id, and no other series.
C3_SubsByEntitySeriesPerSub ==
    (returned.op = "subs_by_entity" /\ OrderedBySubEntity(_data))
    => /\ returned.exc = ""
       /\ DictKeys(returned.val) = DistinctInOrder(EntityIds(_data))
       /\ \A k \in 1..Len(returned.val) :
            LET sets == returned.val[k].value.dataSets
            IN  [i \in 1..Len(sets) |-> sets[i].label]
                  = DistinctInOrder(SubLabels(RecordsOf(_data, returned.val[k].key)))

\* C4: under the same precondition the data of the series for entity e and
\* sub-entity s are the averages of exactly the records of e and s, in input
\* order (so every record's average is in exactly one series).
C4_SubsByEntitySeriesData ==
    (returned.op = "subs_by_entity" /\ OrderedBySubEntity(_data))
    => /\ returned.exc = ""
       /\ DictKeys(returned.val) = DistinctInOrder(EntityIds(_data))
       /\ \A k \in 1..Len(returned.val) :
            LET sets == returned.val[k].value.dataSets
            IN  \A i \in 1..Len(sets) :
                    sets[i].data
                      = FormattedColumn(RecordsOfSub(_data, returned.val[k].key,
                                                     sets[i].label), "average")

\* C5: in every chart of subs_by_entity the k-th data set (k from 0) has
\* palette colour k mod 12, so the first data set of every chart has colour
\* 0, and the colour subscript is never out of range (no IndexError),
\* however many sub-entities an entity has.
C5_SubsByEntityColours ==
    /\ returned.op = "subs_by_entity" => returned.exc # "IndexError"
    /\ ~_subs_by_entity.isNone =>
         \A c \in 1..Len(_subs_by_entity.v) :
            LET sets == _subs_by_entity.v[c].value.dataSets
            IN  \A k \in 1..Len(sets) :
                    sets[k].borderColor = _line_colors[((k - 1) % 12) + 1]

\* a chart with more data sets than the palette has colours was returned,
\* followed by the chart of a second entity
C5_Witness ==
    /\ returned.op = "subs_by_entity" /\ returned.exc = ""
    /\ Len(returned.val) = 2
    /\ Len(returned.val[1].value.dataSets) > 12
    /\ returned.val[1].value.dataSets[13].borderColor = _line_colors[1]
    /\ Len(returned.val[2].value.dataSets) > 1
    /\ returned.val[2].value.dataSets[1].borderColor = _line_colors[1]

\* C6: once a grouped view has been accessed, every later access of it
\* gives what the first access gave and does not walk the records again,
\* whatever was accessed in between.
C6_GroupedViewsMemoized ==
    (returned.op \in GroupedViews /\ returned.again)
    => /\ ~returned.iterated
       /\ returned.exc = first[returned.op].exc
       /\ returned.val = first[returned.op].val

\* C7: over an empty record list, labels and entities are empty lists, the
\* three grouped views are empty mappings, the *_by_entity lists are empty,
\* and no access raises.
C7_EmptyInput ==
    _data = <<>>
    => /\ returned.exc = ""
       /\ returned.op \in ({"labels", "entities", "averages_by_entity",
                            "minima_by_entity", "maxima_by_entity"} \cup GroupedViews)
            => returned.val = <<>>
       /\ ~_entities.isNone => _entities.v = <<>>
       /\ ~_trends_by_entity.isNone => _trends_by_entity.v = <<>>
       /\ ~_values_per_sub.isNone => _values_per_sub.v = <<>>
       /\ ~_subs_by_entity.isNone => _subs_by_entity.v = <<>>

\* every grouped view of a view over no records has been accessed, and an
\* aggregate list and the entities
C7_Witness ==
    /\ _data = <<>>
    /\ \A g \in GroupedViews : first[g].seen
    /\ ~_entities.isNone
    /\ returned.op = "averages_by_entity"
    /\ returned.val = <<>>

\* C8: over exactly one record, of whichever shape, each grouped view
\* returns a mapping with exactly one entry, whose chartId is 1.
C8_SingleRecord ==
    (Len(_data) = 1 /\ returned.op \in GroupedViews)
    => /\ returned.exc = ""
       /\ Len(returned.val) = 1
       /\ returned.val[1].value.chartId = 1

\* the "HH:MM" label column of the records
LabelColumn(data) ==
    [i \in 1..Len(data) |-> data[i].probe_hour \o ":" \o Pad2(data[i].probe_min)]

\* seq without the elements that repeat their predecessor
RunLengthCompressed(seq) ==
    SubSeqAt(seq, {i \in 1..Len(seq) : i = 1 \/ seq[i - 1] # seq[i]}, Len(seq))

ReturnedLabels == [i \in 1..Len(returned.val) |-> returned.val[i].label]

\* C9 as stated: labels is the run-length compression of the label column
\* (a record adds its label when it differs from the label added last).
C9_LabelsRunLength ==
    returned.op = "labels" => ReturnedLabels = RunLengthCompressed(LabelColumn(_data))

\* C9 as amended: labels holds the distinct labels of the label column in
\* order of first appearance (a record adds its label when no earlier
\* record had it), the first with separator "" and the others with ",".
C9_LabelsDistinct ==
    returned.op = "labels"
    => /\ ReturnedLabels = DistinctInOrder(LabelColumn(_data))
       /\ \A i \in 1..Len(returned.val) :
            returned.val[i].separator = (IF i = 1 THEN "" ELSE ",")

\* labels of a view over hours 10, 11, 10 were returned
C9_Witness ==
    /\ returned.op = "labels"
    /\ LabelColumn(_data) = <<"10:00", "11:00", "10:00">>
    /\ ReturnedLabels = <<"10:00", "11:00">>

\* C10: entities is the list of the distinct entity ids of the records in
\* order of first appearance, whatever was accessed before.
C10_EntitiesDistinct ==
    returned.op = "entities" => returned.val = DistinctInOrder(EntityIds(_data))

\* the pieces of text between its commas (Python's text.split(','))
RECURSIVE SplitLoop(_, _, _)
SplitLoop(text, cur, acc) ==
    IF text = "" THEN Append(acc, cur)
    ELSE IF Head(text) = "," THEN SplitLoop(Tail(text), "", Append(acc, cur))
    ELSE SplitLoop(Tail(text), cur \o Head(text), acc)

\* the values a comma-joined series holds: none for the empty string
Items(text) == IF text = "" THEN <<>> ELSE SplitLoop(text, "", <<>>)

\* the number of commas in text
Separators(text) == Len(SplitLoop(text, "", <<>>)) - 1

FlatAttr == [minima |-> "minimum", maxima |-> "maximum", averages |-> "average"]

\* C11: minima, maxima and averages each hold exactly one value per input
\* record, in input order, joined by commas: n records give n values and n-1
\* separators, no record gives the empty string, whatever the entity and
\* sub-entity grouping of the records.
C11_FlatSeries ==
    returned.op \in DOMAIN FlatAttr
    => /\ returned.exc = ""
       /\ Len(Items(returned.val)) = Len(_data)
       /\ \A i \in 1..Len(_data) :
            Items(returned.val)[i] = _str_value(_data[i][FlatAttr[returned.op]])
       /\ Separators(returned.val) = (IF _data = <<>> THEN 0 ELSE Len(_data) - 1)
       /\ (_data = <<>> => returned.val = "")

\* maxima of three records of two entities, the second entity in the middle
C11_Witness ==
    /\ returned.op = "maxima"
    /\ Len(_data) = 3
    /\ _data[1].device_id = "A" /\ _data[2].device_id = "B" /\ _data[3].device_id = "A"
    /\ returned.val = "10,11,12"

\* every value of the comma-joined series text is the rendering, by the rule
\* of _str_value, of the attribute attr of some record of the view
RenderedBy(attr, text) ==
    \A j \in 1..Len(Items(text)) :
        \E i \in 1..Len(_data) : Items(text)[j] = _str_value(_data[i][attr])

TrendAttrs == <<"minimum", "average", "maximum">>

ByEntityAttr ==
    [minima_by_entity |-> "minimum", maxima_by_entity |-> "maximum",
     averages_by_entity |-> "average"]

\* C12: every value placed into a series of any view (flat, trends_by_entity,
\* trends_by_sub_entity, subs_by_entity, *_by_entity) is rendered by the one
\* rule of _str_value (int plain, float with 5 fractional digits, any other
\* type unchanged), wherever its record stands in its group, and rendering a
\* value never fails.
C12_UniformRendering ==
    /\ returned.exc # "ValueError"
    /\ returned.op \in DOMAIN FlatAttr
         => RenderedBy(FlatAttr[returned.op], returned.val)
    /\ returned.op \in {"trends_by_entity", "trends_by_sub_entity"}
         => \A k \in 1..Len(returned.val) : \A a \in 1..3 :
                RenderedBy(TrendAttrs[a], returned.val[k].value.dataSets[a].data)
    /\ returned.op = "subs_by_entity"
         => \A k \in 1..Len(returned.val) :
              \A i \in 1..Len(returned.val[k].value.dataSets) :
                RenderedBy("average", returned.val[k].value.dataSets[i].data)
    /\ returned.op \in DOMAIN ByEntityAttr
         => \A i \in 1..Len(returned.val) :
                RenderedBy(ByEntityAttr[returned.op], returned.val[i].data)

KnownTags == {PyStr("t01"), PyStr("t02"), PyStr("t03"), PyStr("t09")}

\* C13: load_row on a row whose shape tag is none of t01, t02, t03, t09 ends
\* in a decoding failure (UnknownResultShape); it never returns normally.
C13_UnknownTagFails ==
    (loaded.called /\ loaded.cursor_row[1] \notin KnownTags)
    => loaded.exc = "UnknownResultShape"

\* C14: load_row leaves the object with the field values the row and its tag
\* determine, whatever the object held before: the fields after loading a
\* row of a known shape are those a freshly constructed object has after
\* loading the same row.
C14_DecodingIsPure ==
    (loaded.called /\ loaded.cursor_row[1] \in KnownTags)
    => stat = load_row(InputProbeStatistics, loaded.cursor_row).self

\* C15: a fresh object loaded from a t01 row has neither entity_id nor
\* sub_entity_id, from a t02 row it has entity_id and no sub_entity_id, from
\* a t03 row it has both.
C15_OptionalFieldsByShape ==
    (loaded.called /\ loaded.fresh)
    => /\ loaded.cursor_row[1] = PyStr("t01")
            => entity_id(stat) = PyNone /\ sub_entity_id(stat) = PyNone
       /\ loaded.cursor_row[1] = PyStr("t02")
            => entity_id(stat) # PyNone /\ sub_entity_id(stat) = PyNone
       /\ loaded.cursor_row[1] = PyStr("t03")
            => entity_id(stat) # PyNone /\ sub_entity_id(stat) # PyNone

\* C20: for a bucket size m >= 1 and a probe time s seconds after the top of
\* its hour, grp_min is a multiple of m in [0, 60), the bucket holds the
\* minute of the probe (grp_min <= s div 60 < grp_min + m), bucketing the
\* start of the bucket gives the bucket again, and the last second of an
\* hour stays below 60; for m = 0 grp_min is 0.
C20_MinuteBucket ==
    grp.done
    => LET m == grp.by_min
           s == grp.probe_time % 3600
           b == grp.grp_min
       IN  /\ m = 0 => b = 0
           /\ m >= 1 =>
                /\ b % m = 0
                /\ 0 <= b /\ b < 60
                /\ b <= s \div 60 /\ s \div 60 < b + m
                /\ grp_min(m, (grp.probe_time - s) + 60 * b) = b
                /\ (s = 3599 => b < 60)

\* the last second of the second hour of the day, in buckets of 7 minutes
C20_Witness ==
    /\ grp.done
    /\ grp.by_min = 7
    /\ grp.probe_time = 7199
    /\ grp.grp_min = 56

\* the first position from i on at which pat stands in text, 0 if none
Occurrences(text, pat, i) ==
    { j \in i..(Len(text) - Len(pat) + 1) : SubSeq(text, j, j + Len(pat) - 1) = pat }

FindFrom(text, pat, i) ==
    IF Occurrences(text, pat, i) = {} THEN 0
    ELSE CHOOSE j \in Occurrences(text, pat, i) :
            \A k \in Occurrences(text, pat, i) : j <= k

Contains(text, pat) == FindFrom(text, pat, 1) > 0

\* text without the blanks around it
RECURSIVE Trim(_)
Trim(text) ==
    IF text = "" THEN ""
    ELSE IF Head(text) = " " THEN Trim(Tail(text))
    ELSE IF SubSeq(text, Len(text), Len(text)) = " "
    THEN Trim(SubSeq(text, 1, Len(text) - 1))
    ELSE text

\* the names of a comma-separated column list
TrimAll(names) == [i \in 1..Len(names) |-> Trim(names[i])]
Columns(text) == TrimAll(Items(text))

OrderByColumns(text) ==
    Columns(SubSeq(text, FindFrom(text, "ORDER BY ", 1) + 9, Len(text)))

GroupByColumns(text) ==
    Columns(SubSeq(text, FindFrom(text, "GROUP BY ", 1) + 9,
                   FindFrom(text, "ORDER BY ", 1) - 1))

TrendBuilders == {"trend_overall", "trend_entity", "trend_sub_entity"}

\* tag, then entity and sub-entity where the shape has them, then date,
\* hour and minute bucket
OrderingOf ==
    [trend_overall |-> <<"res_type", "eval_date", "grp_hour", "grp_min">>,
     trend_entity |-> <<"res_type", "device_id", "eval_date", "grp_hour", "grp_min">>,
     trend_sub_entity |->
        <<"res_type", "device_id", "channel_no", "eval_date", "grp_hour", "grp_min">>]

\* C16: the ORDER BY of every statement of trend_overall, trend_entity and
\* trend_sub_entity, for every by_min and filter combination, lists the
\* shape tag, the entity and sub-entity columns the shape has, then date,
\* hour and minute bucket (these names being the statement's own columns),
\* and it is the column list of the statement's GROUP BY.
C16_OrderByMatchesOrdering ==
    query.built \in TrendBuilders
    => /\ OrderByColumns(query.stmt_text) = OrderingOf[query.built]
       /\ GroupByColumns(query.stmt_text) = OrderingOf[query.built]
       /\ Contains(query.stmt_text, "' AS res_type, date(probe_time) as eval_date, ")
       /\ Contains(query.stmt_text, "strftime('%H',datetime(probe_time)) as grp_hour, ")
       /\ Contains(query.stmt_text, " as grp_min, ")

\* a sub-entity statement with both filters and buckets of 5 minutes
C16_Witness ==
    /\ query.op = "trend_sub_entity"
    /\ query.by_min = 5
    /\ query.entity_id = PyStr("dev-1")
    /\ query.sub_entity_id = PyInt(77)
    /\ Len(OrderByColumns(query.stmt_text)) = 6

\* what each '?' of text is compared with, in the order of the text
RECURSIVE PlaceholdersFrom(_, _)
PlaceholdersFrom(text, i) ==
    LET q == FindFrom(text, "?", i)
    IN  IF q = 0 THEN <<>>
        ELSE << IF q > 19 /\ SubSeq(text, q - 19, q - 1) = "date(probe_time) = "
                THEN "date"
                ELSE IF q > 12 /\ SubSeq(text, q - 12, q - 1) = "device_id = "
                THEN "entity"
                ELSE IF q > 13 /\ SubSeq(text, q - 13, q - 1) = "channel_no = "
                THEN "sub_entity"
                ELSE "other" >> \o PlaceholdersFrom(text, q + 1)

\* the evaluation dates as the statements' parameter carries them
DateLiteral(eval_date) == IF eval_date.month = 3 THEN "2021-03-04" ELSE "2021-11-25"

\* the argument of the call a placeholder stands for
ArgumentFor(what) ==
    IF what = "date" THEN PyStr(DateLiteral(query.eval_date))
    ELSE IF what = "entity" THEN query.entity_id
    ELSE IF what = "sub_entity" THEN query.sub_entity_id
    ELSE PyNone

\* C17: in every statement of the four builders, with any filters present or
\* absent, the text has as many '?' as the parameter list has entries, the
\* k-th parameter is the argument the k-th placeholder is compared with
\* (date, then entity filter, then sub-entity filter, each filter exactly
\* when given), and no date or filter value stands in the text.
C17_PlaceholdersMatchParams ==
    query.op # ""
    => LET marks == PlaceholdersFrom(query.stmt_text, 1)
       IN  /\ Len(marks) = Len(query.stmt_params)
           /\ marks = <<"date">>
                        \o (IF query.entity_id # PyNone THEN <<"entity">> ELSE <<>>)
                        \o (IF query.sub_entity_id # PyNone THEN <<"sub_entity">> ELSE <<>>)
           /\ \A k \in 1..Len(marks) :
                k <= Len(query.stmt_params) => query.stmt_params[k] = ArgumentFor(marks[k])
           /\ ~Contains(query.stmt_text, DateLiteral(query.eval_date))
           /\ query.entity_id = PyStr("dev-1") => ~Contains(query.stmt_text, "dev-1")
           /\ query.sub_entity_id = PyInt(77) => ~Contains(query.stmt_text, "77")

\* a sub-entity statement with both filters
C17_Witness ==
    /\ query.op = "trend_sub_entity"
    /\ query.entity_id = PyStr("dev-1")
    /\ query.sub_entity_id = PyInt(77)
    /\ query.stmt_params = <<PyStr("2021-11-25"), PyStr("dev-1"), PyInt(77)>>

\* the attribute names a statement may aggregate
KnownTargets == {"value"}

\* C18: a target attribute name outside the allow-list is rejected by the
\* builders and by overall_trend / sub_entity_values: no statement text is
\* constructed and no query is executed.
C18_UnknownTargetRejected ==
    (query.op \in TrendBuilders \cup {"overall_trend", "sub_entity_values"}
        /\ query.eval_target \notin KnownTargets)
    => /\ query.exc = "InvalidGroupingRequest"
       /\ query.stmt_text = ""
       /\ ~query.executed

\* C19: overall_trend with by_sub_entity and without by_entity fails with
\* InvalidGroupingRequest and executes no query of any grouping level.
C19_SubEntityNeedsEntity ==
    (query.op = "overall_trend" /\ query.by_sub_entity /\ ~query.by_entity)
    => /\ query.exc = "InvalidGroupingRequest"
       /\ ~query.executed

\* the three methods of the generator that run a statement
GeneratorOps == {"entities", "overall_trend", "sub_entity_values"}

\* the statement a call built, as the repository was given it
StatementOf(q) == [stmt_text |-> q.stmt_text, stmt_params |-> q.stmt_params]

\* C21: entities, overall_trend and sub_entity_values release the repository
\* they opened on every exit path, whether the query returned or raised; a
\* failure of the query reaches the caller unchanged, with no second attempt
\* and no substitute result; each call performs exactly one query and its
\* result is that of its own statement on the database as it is now.
C21_RepositoryReleased ==
    /\ env.open = 0
    /\ query.op \in GeneratorOps
          => /\ query.opened = 1
             /\ query.released = 1
             /\ query.queries = 1
             /\ query.exc = query.raised
             /\ query.raised # "" => query.result = NoResult
             /\ query.raised = "" => query.result = Rowset(StatementOf(query), env.db)

\* a call whose query raised, made after the recorder stored a message
C21_Witness ==
    /\ query.op = "sub_entity_values"
    /\ query.raised = "QueryExecutionFailure"
    /\ query.exc = "QueryExecutionFailure"
    /\ query.released = 1
    /\ env.db = 1
    /\ env.open = 0

\* C22: a call of entities, overall_trend or sub_entity_values without an
\* evaluation date uses the current date at the time of the call, also when
\* the call is made on a later day than the one the module was loaded on.
C22_DefaultDateIsToday ==
    (query.op \in GeneratorOps /\ ~query.date_given)
    => query.eval_date = env.today

\* more than one entity, and all entities have the same sub-entity ids
SameSubEntities(data) ==
    LET es == {data[i].device_id : i \in 1..Len(data)}
        subs(e) == {data[i].channel_no : i \in {j \in 1..Len(data) : data[j].device_id = e}}
    IN  /\ Cardinality(es) > 1
        /\ \A e, f \in es : subs(e) = subs(f)

\* the positions at which a group of trends_by_sub_entity starts: the first
\* record, and every record whose printable sub-entity differs from that of
\* the record before it
SubRunStarts(data) ==
    {i \in 1..Len(data) : i = 1 \/ SubLabels(data)[i - 1] # SubLabels(data)[i]}

\* the position at which the group starting at i ends
SubRunEnd(data, i) ==
    CHOOSE j \in i..Len(data) :
        /\ \A k \in i..j : SubLabels(data)[k] = SubLabels(data)[i]
        /\ (j = Len(data) \/ SubLabels(data)[j + 1] # SubLabels(data)[i])

\* entry holds the three series of the records recs
HoldsSeriesOf(entry, recs) ==
    /\ entry.dataSets[1].data = FormattedColumn(recs, "minimum")
    /\ entry.dataSets[2].data = FormattedColumn(recs, "average")
    /\ entry.dataSets[3].data = FormattedColumn(recs, "maximum")

\* C23: trends_by_sub_entity over an input ordered by (entity, sub-entity,
\* hour, minute) in which more than one entity has the same sub-entity ids
\* returns one entry per flushed sub-entity group, the chartIds of the
\* entries are exactly 1..n for n entries, and the series of the entry of a
\* group hold the values of all records of that group.
C23_TrendsBySubEntityGroups ==
    (/\ returned.op = "trends_by_sub_entity"
     /\ OrderedBySubEntity(_data)
     /\ SameSubEntities(_data))
    => /\ returned.exc = ""
       /\ Len(returned.val) = Cardinality(SubRunStarts(_data))
       /\ {returned.val[k].value.chartId : k \in 1..Len(returned.val)}
            = 1..Len(returned.val)
       /\ \A i \in SubRunStarts(_data) :
             \E k \in 1..Len(returned.val) :
                /\ returned.val[k].key = SubLabels(_data)[i]
                /\ HoldsSeriesOf(returned.val[k].value,
                                 SubSeq(_data, i, SubRunEnd(_data, i)))

\* the three per-entity aggregate views
AggregateOps == {"averages_by_entity", "minima_by_entity", "maxima_by_entity"}

\* the positions at which an entity group starts: a record with a non-empty
\* entity id that is the first record or differs from the id before it
EntityRunStarts(data) ==
    {i \in 1..Len(data) :
        /\ data[i].device_id # ""
        /\ (i = 1 \/ data[i - 1].device_id # data[i].device_id)}

\* the colours of the palette
PaletteColours == {_line_colors[c] : c \in 1..Len(_line_colors)}

\* C24: averages_by_entity, minima_by_entity and maxima_by_entity, for any
\* number of entity groups in the input, index the palette validly: the call
\* does not fail and returns one data set per group, each with a colour of
\* the palette.
C24_AggregatePaletteIndex ==
    (returned.op \in AggregateOps /\ EntityIdsPresent(_data))
    => /\ returned.exc = ""
       /\ Len(returned.val) = Cardinality(EntityRunStarts(_data))
       /\ \A k \in 1..Len(returned.val) : returned.val[k].borderColor \in PaletteColours

\* the positions at which the entity groups start, in input order
EntityRuns(data) ==
    SubSeqAt([i \in 1..Len(data) |-> i], EntityRunStarts(data), Len(data))

\* the records of the entity group that starts at position i
EntityRunRecords(data, i) ==
    SubSeq(data, i,
           CHOOSE j \in i..Len(data) :
               /\ \A k \in i..j : data[k].device_id = data[i].device_id
               /\ (j = Len(data) \/ data[j + 1].device_id # data[i].device_id))

\* the number, among the entity groups, of the last group of entity e
LastRunOf(data, e) ==
    CHOOSE r \in 1..Len(EntityRuns(data)) :
        /\ data[EntityRuns(data)[r]].device_id = e
        /\ \A q \in (r + 1)..Len(EntityRuns(data)) :
              data[EntityRuns(data)[q]].device_id # e

\* the positions of the records whose entity id is the empty string
EmptyIdRecords(data) == {i \in 1..Len(data) : data[i].device_id = ""}

\* no value of the series text is the rendering of attribute attr of a
\* record with the empty entity id
HoldsNoEmptyIdValue(text, attr) ==
    \A i \in EmptyIdRecords(_data) : ~In(_str_value(_data[i][attr]), Items(text))

\* C25: the empty string is the "no open group" marker of trends_by_entity
\* and _aggregate_by_entity: records whose entity id is the empty string
\* produce no entry and no data set, their values are in no series of
\* another group, and they advance neither chartId nor the colour index:
\* only the groups of non-empty ids are numbered, 1, 2, ... in input order.
C25_EmptyIdIsNoGroup ==
    /\ (returned.op = "trends_by_entity" /\ EntityIdsPresent(_data))
       => /\ returned.exc = ""
          /\ {returned.val[k].key : k \in 1..Len(returned.val)}
               = {_data[i].device_id : i \in EntityRunStarts(_data)}
          /\ \A k \in 1..Len(returned.val) :
               LET entry == returned.val[k]
                   r == LastRunOf(_data, entry.key)
               IN  /\ entry.key # ""
                   /\ entry.value.chartId = r
                   /\ HoldsSeriesOf(entry.value,
                                    EntityRunRecords(_data, EntityRuns(_data)[r]))
                   /\ \A a \in 1..3 :
                        HoldsNoEmptyIdValue(entry.value.dataSets[a].data, TrendAttrs[a])
    /\ (returned.op \in AggregateOps /\ EntityIdsPresent(_data))
       => /\ returned.exc = ""
          /\ Len(returned.val) = Len(EntityRuns(_data))
          /\ \A k \in 1..Len(returned.val) :
               /\ returned.val[k].label = _data[EntityRuns(_data)[k]].device_id
               /\ returned.val[k].label # ""
               /\ returned.val[k].borderColor = _line_colors[k]
               /\ returned.val[k].data
                    = FormattedColumn(EntityRunRecords(_data, EntityRuns(_data)[k]),
                                      ByEntityAttr[returned.op])
               /\ HoldsNoEmptyIdValue(returned.val[k].data, ByEntityAttr[returned.op])
          /\ _entities.v = [k \in 1..Len(returned.val) |-> returned.val[k].label]

\* a view over "", A, "" has returned the one chart of A, numbered 1, with
\* the value of the second record alone
C25_Witness ==
    /\ returned.op = "trends_by_entity"
    /\ EntityIds(_data) = <<"", "A", "">>
    /\ DictKeys(returned.val) = <<"A">>
    /\ returned.val[1].value.chartId = 1
    /\ returned.val[1].value.dataSets[1].data = "1"

====
